---- MODULE Spec2Model ----
(***************************************************************************)
(* Model of the locally computed core of app.py: parse_task_line and       *)
(* schedule_tasks.                                                         *)
(*                                                                         *)
(* Python strings are modelled as sequences of characters, each character  *)
(* a one-element TLA+ string.  Two non-ASCII characters are written by     *)
(* name: "sup2" is U+00B2 (SUPERSCRIPT TWO, for which str.isdigit() is     *)
(* True and int() raises ValueError) and "emdash" is U+2014, the sentinel  *)
(* the scheduler writes for a missing start, end or deadline.              *)
(* A datetime on the scheduler's notional day is the number of minutes     *)
(* since that day's midnight.                                              *)
(***************************************************************************)
EXTENDS Integers, Sequences, FiniteSets, TLC

VARIABLES pc, exception, line, parsed, tasks, work_start, work_end,
          tasks_sorted, start_dt, end_dt, current, idx, schedule

vars == <<pc, exception, line, parsed, tasks, work_start, work_end,
          tasks_sorted, start_dt, end_dt, current, idx, schedule>>

(***************************************************************************)
(* Bounds of the model.                                                    *)
(***************************************************************************)
MaxLineLen == 4
MaxTasks == 3

(***************************************************************************)
(* Characters and Python's str operations.                                 *)
(***************************************************************************)
DecimalChars == <<"0", "1", "2", "3", "4", "5", "6", "7", "8", "9">>

LowerChars == <<"a", "b", "c", "d", "e", "f", "g", "h", "i", "j", "k", "l", "m",
                "n", "o", "p", "q", "r", "s", "t", "u", "v", "w", "x", "y", "z">>

UpperChars == <<"A", "B", "C", "D", "E", "F", "G", "H", "I", "J", "K", "L", "M",
                "N", "O", "P", "Q", "R", "S", "T", "U", "V", "W", "X", "Y", "Z">>

\* The characters of the model in code point order.
CodePointOrder ==
    <<" ", "(", ")", ",", "-", ".">> \o DecimalChars \o <<":">>
        \o UpperChars \o LowerChars \o <<"sup2", "emdash">>

IndexOf(c, seq) == CHOOSE i \in 1..Len(seq) : seq[i] = c

InSeq(c, seq) == \E i \in 1..Len(seq) : seq[i] = c

ord(c) == IndexOf(c, CodePointOrder)

IsDecimal(c) == InSeq(c, DecimalChars)

DigitValue(c) == IndexOf(c, DecimalChars) - 1

\* str.isdigit() of one character: the decimal digits and the digits that
\* are not decimal, such as superscripts.
IsDigitChar(c) == IsDecimal(c) \/ c = "sup2"

IsSpace(c) == c = " "

\* s < t for Python strings: lexicographic by code point.
RECURSIVE StrLess(_, _)
StrLess(s, t) ==
    IF t = <<>> THEN FALSE
    ELSE IF s = <<>> THEN TRUE
    ELSE IF s[1] = t[1] THEN StrLess(Tail(s), Tail(t))
    ELSE ord(s[1]) < ord(t[1])

\* s.split(",")
RECURSIVE split(_)
split(s) ==
    IF \A i \in 1..Len(s) : s[i] # ","
    THEN <<s>>
    ELSE LET i == CHOOSE j \in 1..Len(s) :
                      s[j] = "," /\ \A k \in 1..(j - 1) : s[k] # ","
         IN <<SubSeq(s, 1, i - 1)>> \o split(SubSeq(s, i + 1, Len(s)))

\* s.strip()
RECURSIVE strip(_)
strip(s) ==
    IF s = <<>> THEN s
    ELSE IF IsSpace(s[1]) THEN strip(Tail(s))
    ELSE IF IsSpace(s[Len(s)]) THEN strip(SubSeq(s, 1, Len(s) - 1))
    ELSE s

\* s.isdigit()
isdigit(s) == s # <<>> /\ \A i \in 1..Len(s) : IsDigitChar(s[i])

\* s.upper()
upper(s) ==
    [i \in 1..Len(s) |->
        IF InSeq(s[i], LowerChars) THEN UpperChars[IndexOf(s[i], LowerChars)]
        ELSE s[i]]

\* int(s) raises ValueError on a string that is not made of decimal digits.
IntRaises(s) == s = <<>> \/ \E i \in 1..Len(s) : ~IsDecimal(s[i])

RECURSIVE int(_)
int(s) ==
    IF s = <<>> THEN 0
    ELSE 10 * int(SubSeq(s, 1, Len(s) - 1)) + DigitValue(s[Len(s)])

(***************************************************************************)
(* parse_task_line                                                         *)
(***************************************************************************)
DefaultName == <<"T", "a", "s", "k">>
DefaultDuration == 60
DefaultPriority == <<"M">>

\* parts = [p.strip() for p in line.split(",")]
Parts(l) == LET raw == split(l) IN [i \in 1..Len(raw) |-> strip(raw[i])]

\* True when the conversion of the duration field raises.
ParseRaises(l) ==
    LET parts == Parts(l)
    IN Len(parts) > 1 /\ isdigit(parts[2]) /\ IntRaises(parts[2])

\* The tuple parse_task_line returns when it does not raise.
parse_task_line(l) ==
    LET parts == Parts(l)
    IN [name |-> IF Len(parts) > 0 THEN parts[1] ELSE DefaultName,
        duration |-> IF Len(parts) > 1 /\ isdigit(parts[2])
                     THEN int(parts[2]) ELSE DefaultDuration,
        priority |-> IF Len(parts) > 2 THEN upper(parts[3])
                     ELSE DefaultPriority,
        deadline |-> IF Len(parts) > 3 THEN parts[4] ELSE <<>>]

(***************************************************************************)
(* Input lines.  The short lines are every line of at most MaxLineLen      *)
(* characters over LineAlphabet; the documented examples are added.        *)
(***************************************************************************)
LineAlphabet == {",", " ", "h", "x", "0", "3", "-", ".", "sup2"}

ShortLines(n) == UNION {[1..k -> LineAlphabet] : k \in 0..n}

LineGym == <<"G", "y", "m", ",", " ", "6", "0", ",", " ", "L">>

LineDeepWork ==
    <<"D", "e", "e", "p", " ", "w", "o", "r", "k", ",", " ", "n", "o", "t", "-", "a", "-", "n", "u", "m", "b", "e", "r", ",", " ", "X">>

ExampleLines == {LineGym, LineDeepWork}

\* The task lines the planner examples are built from.
LineA == <<"A", ",", " ", "1", "2", "0", ",", " ", "H", ",", " ", "1", "2", ":", "0", "0">>
LineB == <<"B", ",", " ", "3", "0", ",", " ", "M", ",", " ", "1", "0", ":", "3", "0">>
LineC == <<"C", ",", " ", "6", "0", ",", " ", "L">>
LineD == <<"D", ",", " ", "3", "0", ",", " ", "h", ",", " ", "1", "0", ":", "3", "0">>
LineE == <<"E", ",", " ", "4", "8", "0", ",", " ", "x", ",", " ", "n", "o", "o", "n">>
LineF == <<"F", ",", "0">>
LineG == <<"G", ",", " ", "6", "0", ",", " ", "L">>
LineH == <<"H", ",", " ", "4", "5", ",", " ", "M", ",", " ", "9", ":", "3", "0">>

PlannerLines == {LineA, LineB, LineC, LineD, LineE, LineF, LineG, LineH}

\* tasks = [parse_task_line(l) for l in lines]
TaskPool == {parse_task_line(l) : l \in {m \in PlannerLines : ~ParseRaises(m)}}

TaskLists(n) == UNION {[1..k -> TaskPool] : k \in 0..n}

\* The work windows entered in the two text inputs.
T0900 == <<"0", "9", ":", "0", "0">>
T1000 == <<"1", "0", ":", "0", "0">>
T1800 == <<"1", "8", ":", "0", "0">>
T2300 == <<"2", "3", ":", "0", "0">>
T2359 == <<"2", "3", ":", "5", "9">>
T900 == <<"9", ":", "0", "0">>
T9am == <<"9", "a", "m">>
T2400 == <<"2", "4", ":", "0", "0">>

Windows ==
    {<<T0900, T1800>>, <<T0900, T1000>>, <<T1800, T0900>>, <<T1000, T1000>>,
     <<T2300, T2359>>, <<T900, T1000>>, <<T9am, T1800>>, <<T0900, T2400>>,
     <<T9am, T2400>>}

(***************************************************************************)
(* datetime.strptime(s, "%H:%M") and datetime.strftime("%H:%M")            *)
(***************************************************************************)
NoTime == -1

\* Length of the hour field the pattern 2[0-3]|[0-1]\d|\d matches at the
\* start of s when a colon follows it, 0 when there is none.
HourLen(s) ==
    IF Len(s) >= 3 /\ IsDecimal(s[1]) /\ IsDecimal(s[2]) /\ s[3] = ":"
       /\ 10 * DigitValue(s[1]) + DigitValue(s[2]) <= 23
    THEN 2
    ELSE IF Len(s) >= 2 /\ IsDecimal(s[1]) /\ s[2] = ":" THEN 1
    ELSE 0

\* Length of the minute field the pattern [0-5]\d|\d matches at the start
\* of s, 0 when there is none.
MinuteLen(s) ==
    IF Len(s) >= 2 /\ IsDecimal(s[1]) /\ DigitValue(s[1]) <= 5 /\ IsDecimal(s[2])
    THEN 2
    ELSE IF Len(s) >= 1 /\ IsDecimal(s[1]) THEN 1
    ELSE 0

\* Minutes since midnight of the time strptime returns, NoTime when it
\* raises ValueError (no match, or unconverted data remains).
strptime(s) ==
    LET h == HourLen(s)
        rest == SubSeq(s, h + 2, Len(s))
        m == MinuteLen(rest)
    IN IF h = 0 \/ m = 0 \/ m # Len(rest) THEN NoTime
       ELSE 60 * int(SubSeq(s, 1, h)) + int(rest)

TwoDigits(n) == <<DecimalChars[(n \div 10) + 1], DecimalChars[(n % 10) + 1]>>

\* The "%H:%M" text of the datetime dt minutes after the day's midnight.
strftime(dt) ==
    TwoDigits((dt % 1440) \div 60) \o <<":">> \o TwoDigits((dt % 1440) % 60)

(***************************************************************************)
(* The call parse_task_line(line)                                          *)
(***************************************************************************)
NoTasks == <<>>
NoSchedule == <<>>
NotParsed == <<>>

InitParse ==
    /\ pc = "parse"
    /\ exception = ""
    /\ line \in ShortLines(MaxLineLen) \cup ExampleLines \cup PlannerLines
    /\ parsed = NotParsed
    /\ tasks = NoTasks
    /\ work_start = <<>>
    /\ work_end = <<>>
    /\ tasks_sorted = NoTasks
    /\ start_dt = NoTime
    /\ end_dt = NoTime
    /\ current = NoTime
    /\ idx = 0
    /\ schedule = NoSchedule

\* The body of parse_task_line: it returns the tuple, or int() raises.
ParseLine ==
    /\ pc = "parse"
    /\ IF ParseRaises(line)
       THEN /\ pc' = "raised"
            /\ exception' = "ValueError"
            /\ parsed' = parsed
       ELSE /\ pc' = "parsed"
            /\ exception' = exception
            /\ parsed' = parse_task_line(line)
    /\ UNCHANGED <<line, tasks, work_start, work_end, tasks_sorted, start_dt,
                   end_dt, current, idx, schedule>>

NextParse == ParseLine

SpecParse == InitParse /\ [][NextParse]_vars

(***************************************************************************)
(* schedule_tasks: the sort                                                *)
(***************************************************************************)
\* pri_order.get(p, 1)
pri_order(p) ==
    IF p = <<"H">> THEN 0
    ELSE IF p = <<"M">> THEN 1
    ELSE IF p = <<"L">> THEN 2
    ELSE 1

deadline_key(dl) == IF dl = <<>> THEN <<1, T2359>> ELSE <<0, dl>>

\* key=lambda t: (deadline_key(t[3]), pri_order.get(t[2], 1))
SortKey(t) == <<deadline_key(t.deadline), pri_order(t.priority)>>

\* KeyLess with the priority compared before the deadline.
KeyLess_PriorityFirst(a, b) ==
    \/ a[2] < b[2]
    \/ /\ a[2] = b[2]
       /\ \/ a[1][1] < b[1][1]
          \/ a[1][1] = b[1][1] /\ StrLess(a[1][2], b[1][2])

\* a < b for two sort keys: Python's comparison of nested tuples.
KeyLess(a, b) ==
    \/ a[1][1] < b[1][1]
    \/ /\ a[1][1] = b[1][1]
       /\ \/ StrLess(a[1][2], b[1][2])
          \/ a[1][2] = b[1][2] /\ a[2] < b[2]

\* sorted(ts, key=SortKey): a stable sort, each element goes after the
\* earlier elements whose key is not greater than its own.
RECURSIVE sorted(_)
sorted(ts) ==
    IF ts = <<>> THEN <<>>
    ELSE LET front == sorted(SubSeq(ts, 1, Len(ts) - 1))
             x == ts[Len(ts)]
             n == Cardinality({i \in 1..Len(front) :
                                  ~KeyLess(SortKey(x), SortKey(front[i]))})
         IN SubSeq(front, 1, n) \o <<x>> \o SubSeq(front, n + 1, Len(front))

(***************************************************************************)
(* schedule_tasks: the call                                                *)
(***************************************************************************)
OverflowSuffix == <<" ", "(", "O", "v", "e", "r", "f", "l", "o", "w", ")">>

Sentinel == <<"emdash">>

Init ==
    /\ pc = "sort"
    /\ exception = ""
    /\ line = <<>>
    /\ parsed = NotParsed
    /\ tasks \in TaskLists(MaxTasks)
    /\ \E w \in Windows : work_start = w[1] /\ work_end = w[2]
    /\ tasks_sorted = NoTasks
    /\ start_dt = NoTime
    /\ end_dt = NoTime
    /\ current = NoTime
    /\ idx = 0
    /\ schedule = NoSchedule

\* tasks_sorted = sorted(tasks, key=...)
Sort ==
    /\ pc = "sort"
    /\ tasks_sorted' = sorted(tasks)
    /\ pc' = "window"
    /\ UNCHANGED <<exception, line, parsed, tasks, work_start, work_end,
                   start_dt, end_dt, current, idx, schedule>>

\* ParseWindow with a bound that does not parse replaced by the default of
\* its text input instead of raising.
ParseWindow_Defaults ==
    /\ pc = "window"
    /\ LET s == IF strptime(work_start) = NoTime THEN strptime(T0900)
                ELSE strptime(work_start)
           e == IF strptime(work_end) = NoTime THEN strptime(T1800)
                ELSE strptime(work_end)
       IN /\ pc' = "loop"
          /\ start_dt' = s
          /\ end_dt' = e
          /\ current' = s
          /\ idx' = 1
          /\ schedule' = <<>>
    /\ UNCHANGED <<exception, line, parsed, tasks, work_start, work_end,
                   tasks_sorted>>

\* start_dt, end_dt from strptime (either may raise); current = start_dt;
\* schedule = []
ParseWindow ==
    /\ pc = "window"
    /\ IF strptime(work_start) = NoTime \/ strptime(work_end) = NoTime
       THEN /\ pc' = "raised"
            /\ exception' = "ValueError"
            /\ UNCHANGED <<start_dt, end_dt, current, idx, schedule>>
       ELSE /\ pc' = "loop"
            /\ start_dt' = strptime(work_start)
            /\ end_dt' = strptime(work_end)
            /\ current' = strptime(work_start)
            /\ idx' = 1
            /\ schedule' = <<>>
            /\ exception' = exception
    /\ UNCHANGED <<line, parsed, tasks, work_start, work_end, tasks_sorted>>

\* task_end = current + timedelta(minutes=dur)
TaskEnd(cur, dur) == cur + dur

\* Fits with a task ending exactly at the end of the window rejected.
Fits_Strict(task_end, end) == task_end < end

\* if task_end <= end_dt
Fits(task_end, end) == task_end <= end

\* PlacedEntry with the start of the window written as the start of every
\* placed task.
PlacedEntry_StartOfWindow(t, cur, task_end) ==
    [Task |-> t.name,
     Priority |-> t.priority,
     Start |-> strftime(start_dt),
     End |-> strftime(task_end),
     Deadline |-> IF t.deadline = <<>> THEN Sentinel ELSE t.deadline]

PlacedEntry(t, cur, task_end) ==
    [Task |-> t.name,
     Priority |-> t.priority,
     Start |-> strftime(cur),
     End |-> strftime(task_end),
     Deadline |-> IF t.deadline = <<>> THEN Sentinel ELSE t.deadline]

OverflowEntry(t) ==
    [Task |-> t.name \o OverflowSuffix,
     Priority |-> t.priority,
     Start |-> Sentinel,
     End |-> Sentinel,
     Deadline |-> IF t.deadline = <<>> THEN Sentinel ELSE t.deadline]

\* LoopStep with a task that does not fit dropped from the schedule.
LoopStep_DropsOverflow ==
    /\ pc = "loop"
    /\ idx <= Len(tasks_sorted)
    /\ LET t == tasks_sorted[idx]
           task_end == TaskEnd(current, t.duration)
       IN IF Fits(task_end, end_dt)
          THEN /\ schedule' = Append(schedule, PlacedEntry(t, current, task_end))
               /\ current' = task_end
          ELSE /\ schedule' = schedule
               /\ current' = current
    /\ idx' = idx + 1
    /\ UNCHANGED <<pc, exception, line, parsed, tasks, work_start, work_end,
                   tasks_sorted, start_dt, end_dt>>

\* LoopStep with a task that does not fit using up the rest of the window.
LoopStep_OverflowConsumes ==
    /\ pc = "loop"
    /\ idx <= Len(tasks_sorted)
    /\ LET t == tasks_sorted[idx]
           task_end == TaskEnd(current, t.duration)
       IN IF Fits(task_end, end_dt)
          THEN /\ schedule' = Append(schedule, PlacedEntry(t, current, task_end))
               /\ current' = task_end
          ELSE /\ schedule' = Append(schedule, OverflowEntry(t))
               /\ current' = IF current < end_dt THEN end_dt ELSE current
    /\ idx' = idx + 1
    /\ UNCHANGED <<pc, exception, line, parsed, tasks, work_start, work_end,
                   tasks_sorted, start_dt, end_dt>>

\* LoopStep with the deadline enforced: a task is placed only when it also
\* ends by its deadline.
LoopStep_EnforcesDeadline ==
    /\ pc = "loop"
    /\ idx <= Len(tasks_sorted)
    /\ LET t == tasks_sorted[idx]
           task_end == TaskEnd(current, t.duration)
       IN IF /\ Fits(task_end, end_dt)
             /\ t.deadline # <<>> => task_end <= strptime(t.deadline)
          THEN /\ schedule' = Append(schedule, PlacedEntry(t, current, task_end))
               /\ current' = task_end
          ELSE /\ schedule' = Append(schedule, OverflowEntry(t))
               /\ current' = current
    /\ idx' = idx + 1
    /\ UNCHANGED <<pc, exception, line, parsed, tasks, work_start, work_end,
                   tasks_sorted, start_dt, end_dt>>

\* One iteration of the for loop over tasks_sorted.
LoopStep ==
    /\ pc = "loop"
    /\ idx <= Len(tasks_sorted)
    /\ LET t == tasks_sorted[idx]
           task_end == TaskEnd(current, t.duration)
       IN IF Fits(task_end, end_dt)
          THEN /\ schedule' = Append(schedule, PlacedEntry(t, current, task_end))
               /\ current' = task_end
          ELSE /\ schedule' = Append(schedule, OverflowEntry(t))
               /\ current' = current
    /\ idx' = idx + 1
    /\ UNCHANGED <<pc, exception, line, parsed, tasks, work_start, work_end,
                   tasks_sorted, start_dt, end_dt>>

\* return schedule
Return ==
    /\ pc = "loop"
    /\ idx > Len(tasks_sorted)
    /\ pc' = "done"
    /\ UNCHANGED <<exception, line, parsed, tasks, work_start, work_end,
                   tasks_sorted, start_dt, end_dt, current, idx, schedule>>

Next == Sort \/ ParseWindow \/ LoopStep \/ Return

Spec == Init /\ [][Next]_vars

(***************************************************************************)
(* Properties of parse_task_line, checked under SpecParse                  *)
(***************************************************************************)
PriorityCodes == {<<"H">>, <<"M">>, <<"L">>}

\* C5: for every input line the returned priority is one of H, M, L: the
\* trimmed, upper-cased third field when that is H, M or L, and M otherwise.
C5_PriorityIsHML ==
    pc = "parsed" =>
        LET parts == Parts(line)
            third == IF Len(parts) > 2 THEN upper(parts[3]) ELSE <<>>
        IN /\ parsed.priority \in PriorityCodes
           /\ parsed.priority = IF third \in PriorityCodes THEN third ELSE <<"M">>

\* C6: for every input line the returned duration is a positive integer: the
\* value of the trimmed second field when it is made of decimal digits only,
\* and 60 otherwise.
C6_DurationPositive ==
    /\ pc # "raised"
    /\ pc = "parsed" =>
        LET parts == Parts(line)
            second == IF Len(parts) > 1 THEN parts[2] ELSE <<>>
            decimal == second # <<>>
                       /\ \A i \in 1..Len(second) : IsDecimal(second[i])
        IN /\ parsed.duration > 0
           /\ parsed.duration = IF decimal THEN int(second) ELSE 60

\* C7: for every input line parse_task_line does not fail and returns a
\* non-empty name: the trimmed first field when it is present, the
\* placeholder name otherwise.
C7_NameNonEmpty ==
    /\ pc # "raised"
    /\ pc = "parsed" =>
        LET first == strip(split(line)[1])
        IN /\ parsed.name # <<>>
           /\ parsed.name = IF first # <<>> THEN first ELSE DefaultName

(***************************************************************************)
(* Properties of schedule_tasks, checked under Spec                        *)
(***************************************************************************)
WindowParses == strptime(work_start) # NoTime /\ strptime(work_end) # NoTime

IsOverflow(e) == e.Start = Sentinel

IsPlaced(e) == e.Start # Sentinel

Occurrences(t, ts) == Cardinality({i \in 1..Len(ts) : ts[i] = t})

\* C1: with a work window that parses, schedule_tasks returns exactly one
\* entry per input task, placed or overflowed, also for the empty list.
C1_OneEntryPerTask ==
    /\ WindowParses => pc # "raised"
    /\ pc = "done" =>
        /\ Len(schedule) = Len(tasks)
        /\ \A t \in TaskPool :
               Occurrences(t, tasks)
                   = Cardinality({i \in 1..Len(schedule) :
                                     /\ tasks_sorted[i] = t
                                     /\ schedule[i].Task
                                            \in {t.name, t.name \o OverflowSuffix}})

C1_Witness ==
    /\ pc = "done"
    /\ Len(tasks) >= 2
    /\ \E i, j \in 1..Len(schedule) :
           IsPlaced(schedule[i]) /\ IsOverflow(schedule[j])

\* C2: each task taken in sorted order is placed if and only if cursor +
\* duration does not exceed work_end; a placed entry has start = cursor and
\* end = cursor + duration and the cursor moves to that end; a task that
\* does not fit yields an entry with the overflow marker in its name and the
\* sentinel as start and end.
C2_PlacedIffFits ==
    [][(pc = "loop" /\ idx <= Len(tasks_sorted)) =>
        LET t == tasks_sorted[idx]
            cursor == current
            fits == cursor + t.duration <= strptime(work_end)
        IN /\ Len(schedule') = Len(schedule) + 1
           /\ SubSeq(schedule', 1, Len(schedule)) = schedule
           /\ LET e == schedule'[Len(schedule')]
              IN IF fits
                 THEN /\ e.Task = t.name
                      /\ strptime(e.Start) = cursor
                      /\ strptime(e.End) = cursor + t.duration
                      /\ current' = cursor + t.duration
                 ELSE /\ e.Task = t.name \o OverflowSuffix
                      /\ e.Start = Sentinel
                      /\ e.End = Sentinel]_vars

C2_Witness ==
    /\ pc = "done"
    /\ \E i, j \in 1..Len(schedule) :
           /\ IsPlaced(schedule[i])
           /\ schedule[i].End = work_end
           /\ IsOverflow(schedule[j])

\* The end of the last placed entry among the first n entries, the start of
\* the window when none of them is placed.
RECURSIVE CursorAfter(_)
CursorAfter(n) ==
    IF n = 0 THEN strptime(work_start)
    ELSE IF IsPlaced(schedule[n]) THEN strptime(schedule[n].End)
    ELSE CursorAfter(n - 1)

\* C3: an overflowing task leaves the cursor unchanged and consumes no
\* window time, so a later task whose duration fits between the unchanged
\* cursor and work_end is still placed, starting at that same cursor value.
C3_OverflowKeepsCursor ==
    /\ [][(pc = "loop" /\ idx <= Len(tasks_sorted)
             /\ current + tasks_sorted[idx].duration > strptime(work_end))
          => (current' = current /\ end_dt' = end_dt)]_vars
    /\ [](pc \in {"loop", "done"} =>
            \A i \in 1..Len(schedule) : \A j \in (i + 1)..Len(schedule) :
                (\A k \in i..(j - 1) : IsOverflow(schedule[k])) =>
                    /\ (CursorAfter(i - 1) + tasks_sorted[j].duration
                            <= strptime(work_end)) => IsPlaced(schedule[j])
                    /\ IsPlaced(schedule[j]) =>
                           strptime(schedule[j].Start) = CursorAfter(i - 1))

C3_Witness ==
    /\ pc = "done"
    /\ \E i \in 1..Len(schedule) : \E j \in (i + 1)..Len(schedule) :
           /\ IsOverflow(schedule[i])
           /\ IsPlaced(schedule[j])
           /\ strptime(schedule[j].Start) = CursorAfter(i - 1)
           /\ tasks_sorted[j].duration > 0

\* The priority rank High < Medium < Low.
Rank(p) == IF p = <<"H">> THEN 0 ELSE IF p = <<"M">> THEN 1 ELSE 2

HasDeadline(t) == t.deadline # <<>>

\* The order of the claim: p[i] is the input position of the i-th task.
InClaimedOrder(p) ==
    \A i \in 1..Len(tasks) : \A j \in (i + 1)..Len(tasks) :
        LET a == tasks[p[i]]
            b == tasks[p[j]]
        IN /\ HasDeadline(b) => HasDeadline(a)
           /\ (HasDeadline(a) /\ HasDeadline(b)) => ~StrLess(b.deadline, a.deadline)
           /\ (a.deadline = b.deadline /\ a.priority \in PriorityCodes
                 /\ b.priority \in PriorityCodes) => Rank(a.priority) <= Rank(b.priority)
           /\ (a.deadline = b.deadline /\ a.priority = b.priority) => p[i] < p[j]

TaskA == parse_task_line(LineA)
TaskB == parse_task_line(LineB)
TaskC == parse_task_line(LineC)

ExampleTimes ==
    <<[Task |-> <<"B">>, Start |-> <<"0", "9", ":", "0", "0">>,
       End |-> <<"0", "9", ":", "3", "0">>],
      [Task |-> <<"A">>, Start |-> <<"0", "9", ":", "3", "0">>,
       End |-> <<"1", "1", ":", "3", "0">>],
      [Task |-> <<"C">>, Start |-> <<"1", "1", ":", "3", "0">>,
       End |-> <<"1", "2", ":", "3", "0">>]>>

\* C4: entries come in the order of a stable sort of the input: tasks with
\* a deadline before tasks without one, deadlines by ascending text, equal
\* deadlines by priority rank H, M, L, equal keys in input order; for the
\* window 09:00 to 18:00 and tasks A(120,H,12:00), B(30,M,10:30), C(60,L)
\* the result is B 09:00-09:30, A 09:30-11:30, C 11:30-12:30.
C4_SortedOrder ==
    /\ pc # "sort" =>
           \E p \in Permutations(1..Len(tasks)) :
               /\ tasks_sorted = [i \in 1..Len(tasks) |-> tasks[p[i]]]
               /\ InClaimedOrder(p)
    /\ pc \in {"loop", "done"} =>
           \A i \in 1..Len(schedule) :
               /\ schedule[i].Priority = tasks_sorted[i].priority
               /\ schedule[i].Task
                      \in {tasks_sorted[i].name, tasks_sorted[i].name \o OverflowSuffix}
    /\ (pc = "done" /\ tasks = <<TaskA, TaskB, TaskC>>
          /\ work_start = T0900 /\ work_end = T1800) =>
           [i \in 1..Len(schedule) |->
               [Task |-> schedule[i].Task, Start |-> schedule[i].Start,
                End |-> schedule[i].End]] = ExampleTimes

C4_Witness ==
    /\ pc = "done"
    /\ tasks = <<TaskA, TaskB, TaskC>>
    /\ work_start = T0900
    /\ work_end = T1800
    /\ Len(schedule) = 3

\* C8: when work_start or work_end does not parse as HH:MM, schedule_tasks
\* ends in a format error before any task is placed and returns no entries,
\* for every task list including the empty one.
C8_BadWindowRaises ==
    ~WindowParses =>
        /\ pc \in {"sort", "window", "raised"}
        /\ pc = "raised" => exception = "ValueError"
        /\ schedule = NoSchedule
        /\ current = NoTime
        /\ idx = 0

C8_Witness ==
    /\ pc = "raised"
    /\ exception = "ValueError"
    /\ Len(tasks) >= 1
    /\ strptime(work_start) # NoTime
    /\ strptime(work_end) = NoTime

\* Greedy placement of a list of durations alone: for each duration in
\* order, <<TRUE, start, end>> when it is placed, <<FALSE, cur, cur>> when
\* it is not.
RECURSIVE GreedyByDuration(_, _, _)
GreedyByDuration(durs, cur, end) ==
    IF durs = <<>> THEN <<>>
    ELSE IF cur + durs[1] <= end
         THEN <<<<TRUE, cur, cur + durs[1]>>>>
                  \o GreedyByDuration(Tail(durs), cur + durs[1], end)
         ELSE <<<<FALSE, cur, cur>>>> \o GreedyByDuration(Tail(durs), cur, end)

\* C9: deadlines only affect the sort order: for a fixed processing order,
\* durations and window, which tasks are placed and their start and end do
\* not depend on the deadline values, a task that fits is placed even when
\* the cursor is past its deadline, and no deadline string makes scheduling
\* fail.
C9_DeadlinesOnlySort ==
    /\ pc = "raised" => ~WindowParses
    /\ pc \in {"loop", "done"} =>
        LET durs == [i \in 1..Len(tasks_sorted) |-> tasks_sorted[i].duration]
            ref == GreedyByDuration(durs, strptime(work_start), strptime(work_end))
        IN \A i \in 1..Len(schedule) :
               IF ref[i][1]
               THEN /\ IsPlaced(schedule[i])
                    /\ strptime(schedule[i].Start) = ref[i][2]
                    /\ strptime(schedule[i].End) = ref[i][3]
               ELSE /\ IsOverflow(schedule[i])
                    /\ schedule[i].End = Sentinel

C9_Witness ==
    /\ pc = "done"
    /\ \E i, j \in 1..Len(schedule) :
           /\ IsPlaced(schedule[i])
           /\ strptime(schedule[i].Deadline) # NoTime
           /\ strptime(schedule[i].Start) > strptime(schedule[i].Deadline)
           /\ schedule[j].Deadline # Sentinel
           /\ strptime(schedule[j].Deadline) = NoTime

\* The sum of the durations of the placed tasks among the first n entries.
RECURSIVE PlacedMinutes(_)
PlacedMinutes(n) ==
    IF n = 0 THEN 0
    ELSE PlacedMinutes(n - 1)
             + (IF IsPlaced(schedule[n]) THEN tasks_sorted[n].duration ELSE 0)

\* The placed entries tile the window from its start: each placed entry
\* starts where the previous placed entry ended (the first at work_start),
\* ends its duration later on the same day, and the cursor is the end of
\* the last placed entry.
Tiles ==
    /\ \A i \in 1..Len(schedule) :
           IsPlaced(schedule[i]) =>
               /\ strptime(schedule[i].Start) = CursorAfter(i - 1)
               /\ strptime(schedule[i].End)
                      = strptime(schedule[i].Start) + tasks_sorted[i].duration
    /\ current = CursorAfter(Len(schedule))
    /\ current = strptime(work_start) + PlacedMinutes(Len(schedule))

AllOverflow == \A i \in 1..Len(schedule) : IsOverflow(schedule[i])

\* C10 as stated: after every step of the loop the placed entries tile the
\* window from its start without gap or overlap, the cursor is the end of
\* the last placed entry (work_start if none), the cursor never exceeds
\* work_end, so the placed durations sum to at most the window length and
\* no placed entry crosses midnight; when work_start is later than work_end
\* every task overflows.
C10_Original ==
    (pc \in {"loop", "done"} /\ idx > 1) =>
        /\ Tiles
        /\ current <= strptime(work_end)
        /\ PlacedMinutes(Len(schedule)) <= strptime(work_end) - strptime(work_start)
        /\ strptime(work_start) > strptime(work_end) => AllOverflow

\* C10 amended: the placed entries tile the window from its start and the
\* cursor is the end of the last placed entry (work_start if none); when
\* work_start is not later than work_end the cursor never exceeds work_end
\* and the placed durations sum to at most the window length; when
\* work_start is later than work_end every task overflows and the cursor
\* stays at work_start, above work_end.
C10_TilesWindow ==
    (pc \in {"loop", "done"} /\ idx > 1) =>
        /\ Tiles
        /\ strptime(work_start) <= strptime(work_end) =>
               /\ current <= strptime(work_end)
               /\ PlacedMinutes(Len(schedule))
                      <= strptime(work_end) - strptime(work_start)
        /\ strptime(work_start) > strptime(work_end) =>
               /\ AllOverflow
               /\ current = strptime(work_start)

C10_Witness ==
    /\ pc = "done"
    /\ \E i \in 1..Len(schedule) : \E j \in (i + 1)..Len(schedule) :
           /\ IsPlaced(schedule[i])
           /\ IsPlaced(schedule[j])
           /\ tasks_sorted[i].duration > 0
           /\ tasks_sorted[j].duration > 0
           /\ strptime(schedule[j].Start) = strptime(schedule[i].End)
           /\ current = strptime(schedule[j].End)

====
